---- MODULE Spec2Model ----
(***************************************************************************)
(* Whois domain lookup tool (scripts/whois_lookup.py): the domain          *)
(* validator, the file cache, the WhoAPI client and the command-line       *)
(* orchestrator, as a state machine over the cache directory, the clock    *)
(* and the orchestrator processes.                                         *)
(*                                                                         *)
(* Time is counted in whole hours.  A JSON value is a record               *)
(* [type, text, n]; a dict is a sequence of [k, v] pairs in insertion      *)
(* order; a file's content is a sequence of lines, one per line that       *)
(* json.dump(..., indent=2) emits.                                         *)
(***************************************************************************)
EXTENDS Integers, Sequences, FiniteSets, TLC

\* ------------------------------------------------------------------ bounds
\* orchestrator processes started in one behaviour
MaxRuns == 2
\* advances of the clock in one behaviour
MaxTicks == 2
\* outside modifications of the cache directory in one behaviour
MaxTampers == 1
\* direct calls of Cache.get, Cache.set or WhoisAPI.lookup in one behaviour
MaxCalls == 2

\* ------------------------------------------------------- program constants
CACHE_TTL_HOURS == 24

\* ------------------------------------------------------------- JSON values
Str(s) == [type |-> "string", text |-> s, n |-> 0]
Num(i) == [type |-> "number", text |-> "", n |-> i]
Null == [type |-> "null", text |-> "", n |-> 0]
True == [type |-> "bool", text |-> "true", n |-> 1]
False == [type |-> "bool", text |-> "false", n |-> 0]
\* marks a key that the dict does not hold
Absent == [type |-> "absent", text |-> "", n |-> 0]

\* Python truth value of a JSON value: None, False, 0 and "" are false
Truthy(v) ==
    CASE v.type = "null" -> FALSE
      [] v.type = "bool" -> v.n = 1
      [] v.type = "number" -> v.n # 0
      [] v.type = "string" -> v.text # ""
      [] OTHER -> TRUE

Pair(key, val) == [k |-> key, v |-> val]

HasKey(d, key) == \E i \in 1..Len(d) : d[i].k = key

\* d[key] of a dict that holds key
Lookup(d, key) == d[CHOOSE i \in 1..Len(d) : d[i].k = key].v

\* d.get(key, default)
DictGet(d, key, default) == IF HasKey(d, key) THEN Lookup(d, key) ELSE default

\* d[key] = val: replaces in place, or appends a new key
DictSet(d, key, val) ==
    IF HasKey(d, key)
    THEN [i \in 1..Len(d) |-> IF d[i].k = key THEN Pair(key, val) ELSE d[i]]
    ELSE Append(d, Pair(key, val))

\* ------------------------------------------------------ json.dump / json.load
LBrace == Pair("{", Null)
RBrace == Pair("}", Null)
LBracket == Pair("[", Null)
RBracket == Pair("]", Null)
Garbage == Pair("#not-json", Null)
Punctuation == {"{", "}", "[", "]", "#not-json"}

\* json.dump(data, f, indent=2): a brace line, one line per key, a brace line
Serialize(d) == <<LBrace>> \o d \o <<RBrace>>

\* json.load(f): an object, an array, or JSONDecodeError.  A closing brace
\* before the last line is "Extra data", an empty file is "Expecting value".
Parse(content) ==
    LET len == Len(content) IN
    IF /\ len >= 2
       /\ content[1] = LBrace
       /\ content[len] = RBrace
       /\ \A i \in 2..(len - 1) : content[i].k \notin Punctuation
    THEN [kind |-> "object", dict |-> SubSeq(content, 2, len - 1)]
    ELSE IF content = <<LBracket, RBracket>>
    THEN [kind |-> "array", dict |-> <<>>]
    ELSE [kind |-> "JSONDecodeError", dict |-> <<>>]

\* ------------------------------------------------------------- timestamps
\* datetime.isoformat() of the naive UTC time t
IsoFormat(t) == [type |-> "string", text |-> "iso", n |-> t]

\* s + "Z"
AppendZ(s) == [s EXCEPT !.text = s.text \o "Z"]

\* the "Z" is left in place
ReplaceZ_Missing(s) == s

\* s.replace("Z", "+00:00")
ReplaceZ(s) ==
    CASE s.text = "isoZ" -> [s EXCEPT !.text = "iso+00:00"]
      [] OTHER -> s

\* datetime.fromisoformat(s): the time and whether it carries an offset,
\* or ValueError for a string that is no ISO timestamp
FromIsoFormat(s) ==
    CASE s.text = "iso" -> [ok |-> TRUE, t |-> s.n, tzinfo |-> "none"]
      [] s.text = "iso+00:00" -> [ok |-> TRUE, t |-> s.n, tzinfo |-> "utc"]
      [] OTHER -> [ok |-> FALSE, t |-> 0, tzinfo |-> "none"]

\* ------------------------------------------------------- validate_domain
Letters ==
    {"a", "b", "c", "d", "e", "f", "g", "h", "i", "j", "k", "l", "m",
     "n", "o", "p", "q", "r", "s", "t", "u", "v", "w", "x", "y", "z"}
Digits == {"0", "1", "2", "3", "4", "5", "6", "7", "8", "9"}
Alnum == Letters \cup Digits

\* the characters of each argument string the model passes on the command line
Chars(s) ==
    CASE s = "example.com" -> <<"e", "x", "a", "m", "p", "l", "e", ".", "c", "o", "m">>
      [] s = "test-domain.dev" ->
            <<"t", "e", "s", "t", "-", "d", "o", "m", "a", "i", "n", ".", "d", "e", "v">>
      [] s = "no-tld" -> <<"n", "o", "-", "t", "l", "d">>
      [] s = ".startswith-dot.com" ->
            <<".", "s", "t", "a", "r", "t", "s", "w", "i", "t", "h", "-", "d", "o", "t",
              ".", "c", "o", "m">>
      [] s = "endswith-dot.com." ->
            <<"e", "n", "d", "s", "w", "i", "t", "h", "-", "d", "o", "t", ".", "c", "o",
              "m", ".">>
      [] s = "invalid domain" ->
            <<"i", "n", "v", "a", "l", "i", "d", " ", "d", "o", "m", "a", "i", "n">>
      [] s = "-bad.com" -> <<"-", "b", "a", "d", ".", "c", "o", "m">>
      [] s = "example.c0m" -> <<"e", "x", "a", "m", "p", "l", "e", ".", "c", "0", "m">>
      [] s = "example.c" -> <<"e", "x", "a", "m", "p", "l", "e", ".", "c">>
      [] OTHER -> <<>>

RECURSIVE SplitDots(_)
\* the dot-separated parts of a character sequence
SplitDots(cs) ==
    IF \A i \in 1..Len(cs) : cs[i] # "."
    THEN <<cs>>
    ELSE LET j == CHOOSE i \in 1..Len(cs) :
                      cs[i] = "." /\ \A h \in 1..(i - 1) : cs[h] # "."
         IN <<SubSeq(cs, 1, j - 1)>> \o SplitDots(SubSeq(cs, j + 1, Len(cs)))

\* [a-zA-Z0-9]([a-zA-Z0-9-]*[a-zA-Z0-9])?
IsLabel(cs) ==
    /\ Len(cs) >= 1
    /\ cs[1] \in Alnum
    /\ cs[Len(cs)] \in Alnum
    /\ \A i \in 1..Len(cs) : cs[i] \in Alnum \cup {"-"}

\* [a-zA-Z]{2,}
IsTld(cs) == Len(cs) >= 2 /\ \A i \in 1..Len(cs) : cs[i] \in Letters

\* re.match of ^label(\.label)*\.tld$ ; "$" also matches before one final newline
validate_domain(domain) ==
    LET all == Chars(domain)
        cs == IF Len(all) >= 1 /\ all[Len(all)] = "\n"
              THEN SubSeq(all, 1, Len(all) - 1) ELSE all
        parts == SplitDots(cs)
        np == Len(parts)
    IN /\ domain # ""
       /\ np >= 2
       /\ \A i \in 1..(np - 1) : IsLabel(parts[i])
       /\ IsTld(parts[np])

\* ------------------------------------------------------------------ Cache
\* the result of running a piece of code: a return value (some = FALSE is
\* None) or the exception it raised
Returned(d) == [exc |-> "none", some |-> TRUE, dict |-> d]
ReturnedNone == [exc |-> "none", some |-> FALSE, dict |-> <<>>]
Raised(e) == [exc |-> e, some |-> FALSE, dict |-> <<>>]

\* the entry expires at 24 hours, not after them
GetTry_ExpiresAtTtl(content, now) ==
    LET parsed == Parse(content)
        data == parsed.dict
    IN  IF parsed.kind = "JSONDecodeError" THEN Raised("JSONDecodeError")
        ELSE IF parsed.kind = "array" THEN Raised("TypeError")
        ELSE IF ~HasKey(data, "checked_at") THEN Raised("KeyError")
        ELSE LET raw == Lookup(data, "checked_at") IN
             IF raw.type # "string" THEN Raised("AttributeError")
             ELSE LET checked_at == FromIsoFormat(ReplaceZ(raw)) IN
                  IF ~checked_at.ok THEN Raised("ValueError")
                  ELSE LET age == now - checked_at.t IN
                       IF age >= CACHE_TTL_HOURS THEN ReturnedNone
                       ELSE Returned(data)

\* the try block of Cache.get on the content read from the file, at time now
GetTry(content, now) ==
    LET parsed == Parse(content)
        data == parsed.dict
    IN  IF parsed.kind = "JSONDecodeError" THEN Raised("JSONDecodeError")
        \* data["checked_at"] on a list
        ELSE IF parsed.kind = "array" THEN Raised("TypeError")
        ELSE IF ~HasKey(data, "checked_at") THEN Raised("KeyError")
        ELSE LET raw == Lookup(data, "checked_at") IN
             \* .replace(...) on a number or on None
             IF raw.type # "string" THEN Raised("AttributeError")
             ELSE LET checked_at == FromIsoFormat(ReplaceZ(raw)) IN
                  IF ~checked_at.ok THEN Raised("ValueError")
                  ELSE LET age == now - checked_at.t IN
                       IF age > CACHE_TTL_HOURS THEN ReturnedNone
                       ELSE Returned(data)

\* except (json.JSONDecodeError, KeyError, ValueError)
GetCaught == {"JSONDecodeError", "KeyError", "ValueError"}

NoFile == [exists |-> FALSE, data |-> <<>>]
File(content) == [exists |-> TRUE, data |-> content]

\* an expired entry is deleted like a corrupt one
CacheGet_EvictsExpired(fs, domain, now) ==
    IF ~fs[domain].exists
    THEN [files |-> fs, res |-> ReturnedNone]
    ELSE LET r == GetTry(fs[domain].data, now) IN
         IF r.exc \in GetCaught \/ (r.exc = "none" /\ ~r.some)
         THEN [files |-> [fs EXCEPT ![domain] = NoFile], res |-> ReturnedNone]
         ELSE [files |-> fs, res |-> r]

\* Cache.get(domain) run without interruption on the directory fs:
\* the directory it leaves and what it returns or raises
CacheGet(fs, domain, now) ==
    IF ~fs[domain].exists
    THEN [files |-> fs, res |-> ReturnedNone]
    ELSE LET r == GetTry(fs[domain].data, now) IN
         IF r.exc \in GetCaught
         THEN [files |-> [fs EXCEPT ![domain] = NoFile], res |-> ReturnedNone]
         ELSE [files |-> fs, res |-> r]

\* f.write at offset 0 of a file opened with "w": the new bytes replace the
\* first Len(new) lines and what another writer put beyond them stays
WriteAt0(old, new) ==
    IF Len(old) > Len(new) THEN new \o SubSeq(old, Len(new) + 1, Len(old)) ELSE new

\* Cache.set(domain, data) run without interruption; io is what the file
\* system does: "ok", "open_fails" (IOError from open), "write_fails"
\* (OSError from the write, after open has truncated the file)
CacheSet(fs, domain, data, io) ==
    CASE io = "open_fails" -> fs
      [] io = "write_fails" -> [fs EXCEPT ![domain] = File(<<>>)]
      [] OTHER -> [fs EXCEPT ![domain] = File(WriteAt0(<<>>, Serialize(data)))]

\* --------------------------------------------------------------- WhoisAPI
NoToken == "<None>"

\* WhoisAPI.__init__: the token passed, else os.environ.get("WHOAPI_TOKEN")
WhoisAPI_init(api_token, env_token) ==
    IF api_token = NoToken THEN env_token ELSE api_token

ErrorResult(error_type, message, action) ==
    << Pair("status", Str("error")),
       Pair("error_type", Str(error_type)),
       Pair("message", message),
       Pair("suggested_action", Str(action)) >>

\* " " in s, and s.split(" ")[0], for the date strings the provider sends
HasSpace(s) == s.text \in {"2027-01-15 00:00:00"}
BeforeSpace(s) ==
    CASE s.text = "2027-01-15 00:00:00" -> Str("2027-01-15")
      [] OTHER -> s

RECURSIVE Registrant(_)
\* the loop over contacts: the first contact of type registrant decides
Registrant(contacts) ==
    IF contacts = <<>> THEN Str("Unknown")
    ELSE IF DictGet(contacts[1], "type", Null) = Str("registrant")
    THEN DictGet(contacts[1], "organization",
                 DictGet(contacts[1], "name", Str("Unknown")))
    ELSE Registrant(Tail(contacts))

\* x != 0 in Python (False == 0 holds)
NotZero(v) == ~(v.type \in {"number", "bool"} /\ v.n = 0)

\* the body of the try block of lookup once requests.get has returned
LookupResponse(domain, status_code, body) ==
    IF status_code = 401
    THEN Returned(ErrorResult("api_error", Str("API key invalid or missing."),
                              "Check your WHOAPI_TOKEN environment variable."))
    ELSE IF status_code = 429
    THEN Returned(ErrorResult("api_error", Str("API rate limit reached."),
                              "Try again later. Cached results still work!"))
    ELSE IF status_code # 200
    THEN Returned(ErrorResult("api_error",
                              [type |-> "string", text |-> "API returned status ",
                               n |-> status_code],
                              "Try again later or check WhoAPI status."))
    \* response.json()
    ELSE IF body.kind = "invalid" THEN Raised(body.json_exc)
    \* data.get on a list
    ELSE IF body.kind = "array" THEN Raised("AttributeError")
    ELSE LET data == body.dict IN
         IF NotZero(DictGet(data, "status", Null))
         THEN Returned(ErrorResult("api_error",
                                   DictGet(data, "status_desc", Str("API error")),
                                   "Check API status or try again later."))
         ELSE IF ~Truthy(DictGet(data, "registered", True))
         THEN Returned(<< Pair("status", Str("available")),
                          Pair("domain", Str(domain)) >>)
         ELSE LET expires == DictGet(data, "date_expires", Str("Unknown")) IN
              \* " " in expires on a value that is no string
              IF expires.type # "string" THEN Raised("TypeError")
              ELSE Returned(<< Pair("status", Str("taken")),
                               Pair("domain", Str(domain)),
                               Pair("registrant", Registrant(body.contacts)),
                               Pair("expires",
                                    IF expires # Str("Unknown") /\ HasSpace(expires)
                                    THEN BeforeSpace(expires) ELSE expires),
                               Pair("registrar",
                                    DictGet(data, "registrar", Str("Unknown"))) >>)

\* except requests.Timeout / except requests.RequestException
LookupCaught == {"Timeout", "ConnectionError", "requests.JSONDecodeError"}

\* only None counts as no token
NoCredential_NoneOnly(api_token) == api_token = NoToken

\* if not self.api_token
NoCredential(api_token) == api_token \in {NoToken, ""}

\* WhoisAPI.lookup(domain) with the token api_token, when the network does
\* net: what it returns or raises, and the requests it issued
lookup(api_token, domain, net) ==
    IF NoCredential(api_token)
    THEN [res |-> Returned(ErrorResult("configuration_error",
                    Str("API token not set. Set WHOAPI_TOKEN environment variable."),
                    "Run: export WHOAPI_TOKEN=your_token_here")),
          requests |-> 0]
    ELSE LET r == IF net.transport # "ok" THEN Raised(net.transport)
                  ELSE LookupResponse(domain, net.status_code, net.body)
         IN [res |-> IF r.exc = "Timeout"
                     THEN Returned(ErrorResult("api_error",
                              Str("API request timeout after 10 seconds."),
                              "Check your internet connection and try again."))
                     ELSE IF r.exc \in LookupCaught
                     THEN Returned(ErrorResult("api_error",
                              Str("Network error: " \o r.exc),
                              "Check your internet connection."))
                     ELSE r,
             requests |-> 1]


\* ------------------------------------------------------------ environment
Procs == {1, 2}

\* what the user types after the script name
ArgChoices ==
    { <<>>,
      <<"example.com">>,
      <<"no-tld">>,
      <<".startswith-dot.com">>,
      <<"example.com", "test-domain.dev">> }

\* the names f"{domain}.json" the cache directory can hold
CacheNames == {"example.com", "test-domain.dev"}

\* WHOAPI_TOKEN: unset, set to the empty string, set
EnvTokens == {NoToken, "", "test_token"}

ObjectBody(d, contacts) ==
    [kind |-> "object", json_exc |-> "none", dict |-> d, contacts |-> contacts]
ArrayBody == [kind |-> "array", json_exc |-> "none", dict |-> <<>>, contacts |-> <<>>]
\* a body that is not JSON: response.json() raises requests' JSONDecodeError
\* (a RequestException) in requests >= 2.27 and a plain ValueError before
InvalidBody(e) == [kind |-> "invalid", json_exc |-> e, dict |-> <<>>, contacts |-> <<>>]
NoBody == ObjectBody(<<>>, <<>>)

Bodies ==
    { InvalidBody("requests.JSONDecodeError"),
      InvalidBody("ValueError"),
      ArrayBody,
      ObjectBody(<< Pair("status", Num(1)), Pair("status_desc", Str("Invalid domain")),
                    Pair("registered", False) >>, <<>>),
      ObjectBody(<< Pair("registered", False) >>, <<>>),
      ObjectBody(<< Pair("status", Num(0)), Pair("registered", False) >>, <<>>),
      ObjectBody(<< Pair("status", Num(0)), Pair("registered", Null) >>, <<>>),
      ObjectBody(<< Pair("status", Num(0)) >>, <<>>),
      ObjectBody(<< Pair("status", Num(0)), Pair("registered", True),
                    Pair("date_expires", Null) >>, <<>>),
      ObjectBody(<< Pair("status", Num(0)), Pair("registered", True),
                    Pair("registrar", Str("Example Registrar Inc")),
                    Pair("date_expires", Str("2027-01-15 00:00:00")) >>,
                 << << Pair("type", Str("admin")), Pair("name", Str("Admin")) >>,
                    << Pair("type", Str("registrant")),
                       Pair("organization", Str("Example Corp")) >> >>) }

Response(code, body) == [transport |-> "ok", status_code |-> code, body |-> body]
TransportFailure(e) == [transport |-> e, status_code |-> 0, body |-> NoBody]
NoNet == TransportFailure("none")

\* everything requests.get can do
NetOutcomes ==
    {TransportFailure("Timeout"), TransportFailure("ConnectionError")}
    \cup {Response(code, NoBody) : code \in {401, 429, 500}}
    \cup {Response(200, b) : b \in Bodies}

\* the outcomes the orchestrator processes meet: one of each kind of end of
\* lookup (an error result, an uncaught exception, available, taken)
MainNetOutcomes ==
    {net \in NetOutcomes :
        \/ net.transport = "Timeout"
        \/ net.status_code = 401
        \/ net.body.kind = "array"
        \/ net.body.dict = << Pair("status", Num(0)), Pair("registered", False) >>
        \/ net.body.contacts # <<>>}

\* what some other program, an editor or a failing disk can leave in a cache
\* file at time now
TamperContents(now) ==
    { <<Garbage>>,
      <<LBracket, RBracket>>,
      Serialize(<< Pair("status", Str("taken")) >>),
      Serialize(<< Pair("status", Str("taken")), Pair("checked_at", Num(now)) >>),
      Serialize(<< Pair("status", Str("taken")), Pair("checked_at", Null) >>),
      Serialize(<< Pair("status", Str("taken")),
                   Pair("checked_at", Str("not-a-date")) >>),
      Serialize(<< Pair("status", Str("error")),
                   Pair("checked_at", AppendZ(IsoFormat(now))) >>) }

\* ------------------------------------------------------------------ state
VARIABLES
    clock,       \* datetime.utcnow(), in hours
    ticks,       \* advances of the clock so far
    files,       \* the cache directory: name -> [exists, data]
    proc,        \* the orchestrator processes
    prev,        \* the process that ran before the current one (history)
    started,     \* orchestrator processes started so far
    tampers,     \* outside modifications so far
    lastWriter,  \* the process whose Cache.set wrote last, 0 for none (history)
    call,        \* the last direct call of Cache.get or Cache.set, or the
                 \* outside modification that came after it (history)
    api,         \* the last direct call of WhoisAPI.lookup (history)
    calls        \* direct calls so far

vars ==
    <<clock, ticks, files, proc, prev, started, tampers, lastWriter, call, api, calls>>

Status(d) == DictGet(d, "status", Absent).text

IdleProc ==
    [ pc |-> "idle", argv |-> <<>>, env_token |-> NoToken, domain |-> "",
      result |-> <<>>, net |-> NoNet, fd |-> "closed", out |-> <<>>, exit |-> -1,
      exc |-> "none", requests |-> 0, looked |-> FALSE, hit |-> FALSE,
      t0 |-> 0, tget |-> -1, wrote |-> "no",
      files0 |-> [d \in CacheNames |-> NoFile] ]

\* what is remembered of a finished process: one that got available or
\* taken from the provider is kept whole, any other is forgotten
Summary(pr) ==
    IF pr.looked /\ pr.exc = "none" /\ Status(pr.result) \in {"available", "taken"}
    THEN pr ELSE IdleProc

NoCall ==
    [ op |-> "none", domain |-> "", arg |-> <<>>, io |-> "ok", res |-> ReturnedNone,
      now |-> 0 ]

NoApiCall ==
    [ api_token |-> NoToken, env_token |-> NoToken, domain |-> "", net |-> NoNet,
      res |-> ReturnedNone, requests |-> 0 ]

Init ==
    /\ clock = 0
    /\ ticks = 0
    /\ files = [d \in CacheNames |-> NoFile]
    /\ proc = [p \in Procs |-> IdleProc]
    /\ prev = IdleProc
    /\ started = 0
    /\ tampers = 0
    /\ lastWriter = 0
    /\ call = NoCall
    /\ api = NoApiCall
    /\ calls = 0

\* print(json.dumps(result, indent=2)); sys.exit(code)
Emit(pr, result, code) ==
    [pr EXCEPT !.pc = "done", !.out = Append(pr.out, result), !.exit = code,
               !.fd = "closed"]

\* an exception nobody catches: the traceback goes to stderr, nothing is
\* printed on stdout and the interpreter exits with status 1
Crash(pr, e) == [pr EXCEPT !.pc = "done", !.exc = e, !.exit = 1, !.fd = "closed"]

\* the end of main: print the result; exit 1 for an error, else 0
EmitResult(pr) ==
    Emit(pr, pr.result, IF Status(pr.result) = "error" THEN 1 ELSE 0)

\* ------------------------------------------------------------------- main
\* every result is cached
Cacheable_Always(result) == TRUE

\* if result["status"] in ["available", "taken"]
Cacheable(result) == Status(result) \in {"available", "taken"}

\* main() up to the cache: the argument count and validate_domain
Start(p, args, tok) ==
    LET argv == <<"whois_lookup.py">> \o args
        pr == [IdleProc EXCEPT !.argv = argv, !.env_token = tok, !.t0 = clock,
                               !.files0 = files]
    IN  /\ proc[p].pc \in {"idle", "done"}
        /\ started < MaxRuns
        /\ started' = started + 1
        /\ prev' = IF proc[p].pc = "done" THEN Summary(proc[p]) ELSE prev
        /\ proc' = [proc EXCEPT ![p] =
              IF Len(argv) # 2
              THEN Emit(pr, ErrorResult("validation_error", Str("No domain provided"),
                                        "Usage: python whois_lookup.py <domain>"), 1)
              ELSE IF ~validate_domain(argv[2])
              THEN Emit([pr EXCEPT !.domain = argv[2]],
                        ErrorResult("validation_error", Str("Invalid domain format"),
                                    "Domain must be like: example.com or sub.example.com"),
                        1)
              ELSE [pr EXCEPT !.pc = "cache_init", !.domain = argv[2]]]
        /\ UNCHANGED <<clock, ticks, files, tampers, lastWriter, call, api, calls>>

\* cache = Cache(): mkdir(parents=True, exist_ok=True) of the cache directory,
\* which the file system lets succeed or not
CacheInit(p, ok) ==
    /\ proc[p].pc = "cache_init"
    /\ proc' = [proc EXCEPT ![p] =
          IF ok THEN [@ EXCEPT !.pc = "get_exists"] ELSE Crash(@, "PermissionError")]
    /\ UNCHANGED <<clock, ticks, files, prev, started, tampers, lastWriter, call, api, calls>>

\* Cache.get: if not cache_path.exists(): return None
GetExists(p) ==
    /\ proc[p].pc = "get_exists"
    /\ proc' = [proc EXCEPT ![p] =
          IF files[@.domain].exists
          THEN [@ EXCEPT !.pc = "get_read"]
          ELSE [@ EXCEPT !.pc = "lookup", !.tget = clock]]
    /\ UNCHANGED <<clock, ticks, files, prev, started, tampers, lastWriter, call, api, calls>>

\* Cache.get: open and json.load the file, then the expiry test; back in main,
\* a cached result is printed and the process exits 0
GetRead(p) ==
    LET pr == [proc[p] EXCEPT !.tget = clock]
        r == GetTry(files[pr.domain].data, clock)
    IN  /\ proc[p].pc = "get_read"
        /\ proc' = [proc EXCEPT ![p] =
              IF ~files[pr.domain].exists THEN Crash(pr, "FileNotFoundError")
              ELSE IF r.exc \in GetCaught THEN [pr EXCEPT !.pc = "get_unlink"]
              ELSE IF r.exc # "none" THEN Crash(pr, r.exc)
              ELSE IF r.some /\ r.dict # <<>>
              THEN Emit([pr EXCEPT !.hit = TRUE], r.dict, 0)
              ELSE [pr EXCEPT !.pc = "lookup"]]
        /\ UNCHANGED <<clock, ticks, files, prev, started, tampers, lastWriter, call, api, calls>>

\* the processes whose open file is no longer the one the name leads to
Orphaned(ps, p, d) ==
    [q \in Procs |->
        IF q # p /\ ps[q].fd = "open" /\ ps[q].domain = d
        THEN [ps[q] EXCEPT !.fd = "orphan"] ELSE ps[q]]

\* Cache.get: cache_path.unlink(missing_ok=True); return None
GetUnlink(p) ==
    /\ proc[p].pc = "get_unlink"
    /\ files' = [files EXCEPT ![proc[p].domain] = NoFile]
    /\ proc' = [Orphaned(proc, p, proc[p].domain) EXCEPT ![p] = [@ EXCEPT !.pc = "lookup"]]
    /\ UNCHANGED <<clock, ticks, prev, started, tampers, lastWriter, call, api, calls>>

\* api = WhoisAPI(); result = api.lookup(domain); a result that is available
\* or taken gets checked_at, an error result is printed and the process exits
RemoteLookup(p, net) ==
    LET pr == proc[p]
        r == lookup(WhoisAPI_init(NoToken, pr.env_token), pr.domain, net)
        done == [pr EXCEPT !.requests = @ + r.requests, !.looked = TRUE,
                           !.net = IF r.requests > 0 THEN net ELSE NoNet]
    IN  /\ pr.pc = "lookup"
        /\ proc' = [proc EXCEPT ![p] =
              IF r.res.exc # "none" THEN Crash(done, r.res.exc)
              ELSE IF Cacheable(r.res.dict)
              THEN [done EXCEPT !.pc = "set_open",
                                !.result = DictSet(r.res.dict, "checked_at",
                                                   AppendZ(IsoFormat(clock)))]
              ELSE EmitResult([done EXCEPT !.result = r.res.dict])]
        /\ UNCHANGED <<clock, ticks, files, prev, started, tampers, lastWriter, call, api, calls>>

\* Cache.set: open(cache_path, "w") creates or truncates the file; an IOError
\* is swallowed and main goes on to print the result
SetOpen(p, ok) ==
    LET pr == proc[p] IN
    /\ pr.pc = "set_open"
    /\ files' = IF ok THEN [files EXCEPT ![pr.domain] = File(<<>>)] ELSE files
    /\ proc' = [proc EXCEPT ![p] =
          IF ok THEN [pr EXCEPT !.pc = "set_write", !.fd = "open"]
          ELSE EmitResult([pr EXCEPT !.wrote = "open_failed"])]
    /\ UNCHANGED <<clock, ticks, prev, started, tampers, lastWriter, call, api, calls>>

\* Cache.set: json.dump and the close that flushes it in one write at offset
\* 0; an OSError is swallowed; then main prints the result and exits
SetWrite(p, ok) ==
    LET pr == proc[p] IN
    /\ pr.pc = "set_write"
    /\ files' = IF ok /\ pr.fd = "open"
                THEN [files EXCEPT ![pr.domain] =
                         File(WriteAt0(@.data, Serialize(pr.result)))]
                ELSE files
    /\ lastWriter' = IF ok THEN p ELSE lastWriter
    /\ proc' = [proc EXCEPT ![p] =
          EmitResult([pr EXCEPT !.wrote = IF ok THEN "ok" ELSE "write_failed"])]
    /\ UNCHANGED <<clock, ticks, prev, started, tampers, call, api, calls>>

\* ------------------------------------------------------- the world outside
TickSteps == {1, CACHE_TTL_HOURS}

Tick(d) ==
    /\ ticks < MaxTicks
    /\ ticks' = ticks + 1
    /\ clock' = clock + d
    /\ UNCHANGED <<files, proc, prev, started, tampers, lastWriter, call, api, calls>>

\* somebody else rewrites or removes a cache file
Tamper(d, f) ==
    /\ tampers < MaxTampers
    /\ tampers' = tampers + 1
    /\ files' = [files EXCEPT ![d] = f]
    /\ proc' = IF f.exists THEN proc ELSE Orphaned(proc, 0, d)
    /\ call' = [NoCall EXCEPT !.op = "tamper", !.domain = d]
    /\ UNCHANGED <<clock, ticks, prev, started, lastWriter, api, calls>>

TamperFiles(now) == {NoFile} \cup {File(c) : c \in TamperContents(now)}

\* the outside modifications the orchestrator processes meet: a removed file,
\* one that does not parse, one whose checked_at is a number, and one that
\* holds a fresh error result
MainTamperFiles(now) ==
    {f \in TamperFiles(now) :
        \/ ~f.exists
        \/ f.data = <<Garbage>>
        \/ /\ Parse(f.data).kind = "object"
           /\ \/ DictGet(Parse(f.data).dict, "checked_at", Absent).type = "number"
              \/ Status(Parse(f.data).dict) = "error"}

\* ----------------------------------------------- one process after another
Next ==
    \/ \E args \in ArgChoices, tok \in EnvTokens : Start(1, args, tok)
    \/ \E ok \in BOOLEAN : CacheInit(1, ok)
    \/ GetExists(1)
    \/ GetRead(1)
    \/ GetUnlink(1)
    \/ \E net \in MainNetOutcomes : RemoteLookup(1, net)
    \/ \E ok \in BOOLEAN : SetOpen(1, ok)
    \/ \E ok \in BOOLEAN : SetWrite(1, ok)
    \/ \E d \in TickSteps : Tick(d)

Spec == Init /\ [][Next]_vars

\* ------------------------- one process after another, and the world outside
TamperNext ==
    \/ Next
    \/ \E f \in MainTamperFiles(clock) : Tamper("example.com", f)

TamperSpec == Init /\ [][TamperNext]_vars

\* ------------------------------------------- two processes at the same time
\* the cache file is absent, or was left truncated by a write that failed
ConcInit ==
    /\ Init!1 /\ Init!2 /\ Init!4 /\ Init!5 /\ Init!6 /\ Init!7 /\ Init!8
    /\ Init!9 /\ Init!10 /\ Init!11
    /\ files \in {[d \in CacheNames |-> NoFile],
                  [d \in CacheNames |-> IF d = "example.com" THEN File(<<>>) ELSE NoFile]}

\* both processes are started once, for the same domain, with a token
ConcStart(p) == proc[p].pc = "idle" /\ Start(p, <<"example.com">>, "test_token")

ConcNext ==
    \E p \in Procs :
        \/ ConcStart(p)
        \/ \E ok \in BOOLEAN : CacheInit(p, ok)
        \/ GetExists(p)
        \/ GetRead(p)
        \/ GetUnlink(p)
        \/ \E net \in MainNetOutcomes : RemoteLookup(p, net)
        \/ \E ok \in BOOLEAN : SetOpen(p, ok)
        \/ \E ok \in BOOLEAN : SetWrite(p, ok)

ConcSpec == ConcInit /\ [][ConcNext]_vars

\* ------------------------------------------------ the cache called directly
\* the entries a caller stores at time now: stamped now, or 25 hours ago
SetData(d, now) ==
    {<< Pair("domain", Str(d)), Pair("checked_at", AppendZ(IsoFormat(t))),
        Pair("status", Str("taken")) >> :
        t \in {now, now - (CACHE_TTL_HOURS + 1)}}

CallGet(d) ==
    LET g == CacheGet(files, d, clock) IN
    /\ calls < MaxCalls
    /\ calls' = calls + 1
    /\ files' = g.files
    /\ call' = [op |-> "get", domain |-> d, arg |-> <<>>, io |-> "ok", res |-> g.res,
                now |-> clock]
    /\ UNCHANGED <<clock, ticks, proc, prev, started, tampers, lastWriter, api>>

CallSet(d, data, io) ==
    /\ calls < MaxCalls
    /\ calls' = calls + 1
    /\ files' = CacheSet(files, d, data, io)
    /\ call' = [op |-> "set", domain |-> d, arg |-> data, io |-> io,
                res |-> ReturnedNone, now |-> clock]
    /\ UNCHANGED <<clock, ticks, proc, prev, started, tampers, lastWriter, api>>

CacheNext ==
    \/ \E d \in CacheNames : CallGet(d)
    \/ \E d \in CacheNames : \E data \in SetData(d, clock) :
          \E io \in {"ok", "open_fails", "write_fails"} : CallSet(d, data, io)
    \/ \E d \in TickSteps : Tick(d)
    \/ \E f \in TamperFiles(clock) : Tamper("example.com", f)

CacheSpec == Init /\ [][CacheNext]_vars

\* ----------------------------------------------- the client called directly
CallLookup(api_token, env_token, domain, net) ==
    LET token == WhoisAPI_init(api_token, env_token)
        r == lookup(token, domain, net)
    IN  /\ calls < MaxCalls
        /\ calls' = calls + 1
        /\ api' = [api_token |-> api_token, env_token |-> env_token, domain |-> domain,
                   net |-> net, res |-> r.res, requests |-> r.requests]
        /\ UNCHANGED <<clock, ticks, files, proc, prev, started, tampers, lastWriter,
                       call>>

ApiNext ==
    \E api_token \in EnvTokens, env_token \in EnvTokens, domain \in CacheNames,
       net \in NetOutcomes : CallLookup(api_token, env_token, domain, net)

ApiSpec == Init /\ [][ApiNext]_vars

\* ----------------------------------------------------------------- claims
\* the process of the one-after-another specifications
cur == proc[1]

FromProvider(pr) ==
    pr.pc = "done" /\ pr.looked /\ pr.exc = "none"
    /\ Status(pr.result) \in {"available", "taken"}

\* the hour an entry's checked_at names
StampOf(entry) == Lookup(entry, "checked_at").n

\* C1 as stated: when the run before got available or taken from the provider
\* and the current run, for the same domain, started within 24 hours of it,
\* the two made one request in all: the current run called no lookup.
C1_OneRequestAsStated ==
    (cur.pc = "done" /\ FromProvider(prev) /\ cur.domain = prev.domain
        /\ cur.t0 - prev.t0 <= CACHE_TTL_HOURS)
    => (prev.requests + cur.requests = 1 /\ ~cur.looked)

\* C1 amended: when moreover the earlier run's cache write succeeded and the
\* current run reads the cache (if it gets that far) no later than 24 hours
\* after the earlier run's checked_at, the current run calls no lookup, the
\* two made one request in all, and a current run that read the cache printed
\* the stored entry and exited 0.
C1_OneRequestWhenStored ==
    (cur.pc = "done" /\ FromProvider(prev) /\ cur.domain = prev.domain
        /\ prev.wrote = "ok"
        /\ cur.tget - StampOf(prev.result) <= CACHE_TTL_HOURS)
    => /\ prev.requests + cur.requests = 1
       /\ ~cur.looked
       /\ cur.tget >= 0 => (cur.hit /\ cur.out = <<prev.result>> /\ cur.exit = 0)

\* a second run answered from the cache exactly 24 hours after the stamp
C1_Witness ==
    /\ cur.pc = "done" /\ FromProvider(prev) /\ cur.domain = prev.domain
    /\ prev.wrote = "ok"
    /\ cur.hit /\ cur.requests = 0
    /\ cur.tget - StampOf(prev.result) = CACHE_TTL_HOURS

\* what the orchestrator hands to Cache.set is available or taken and stamped,
\* and so is every entry a cache file holds
WrittenEntriesOk ==
    /\ (cur.pc \in {"set_open", "set_write"} \/ cur.wrote # "no")
          => /\ Status(cur.result) \in {"available", "taken"}
             /\ HasKey(cur.result, "checked_at")
    /\ \A d \in CacheNames :
          (files[d].exists /\ Parse(files[d].data).kind = "object")
          => /\ Status(Parse(files[d].data).dict) \in {"available", "taken"}
             /\ HasKey(Parse(files[d].data).dict, "checked_at")

ErrorRun(pr) ==
    pr.pc = "done" /\ pr.looked /\ pr.exc = "none" /\ Status(pr.result) = "error"

\* C2 as stated: from an empty cache, everything written is available or taken
\* with checked_at, and a run whose lookup returned an error result leaves the
\* cache directory as it found it.
C2_ErrorsLeaveCacheAsStated ==
    /\ WrittenEntriesOk
    /\ ErrorRun(cur) => files = cur.files0

\* C2 amended: from an empty cache, everything written is available or taken
\* with checked_at, and a run whose lookup returned an error result writes
\* nothing: every cache file is as the run found it, except that the run's
\* own read has removed the file of its domain when that file did not parse.
C2_ErrorsNeverCached ==
    /\ WrittenEntriesOk
    /\ ErrorRun(cur) =>
          \A d \in CacheNames :
             \/ files[d] = cur.files0[d]
             \/ /\ d = cur.domain
                /\ cur.files0[d].exists
                /\ Parse(cur.files0[d].data).kind = "JSONDecodeError"
                /\ ~files[d].exists

\* a run that found an expired entry, got an error from the provider and left
\* the entry where it was
C2_Witness ==
    /\ ErrorRun(cur)
    /\ cur.requests = 1
    /\ cur.files0[cur.domain].exists
    /\ Parse(cur.files0[cur.domain].data).kind = "object"
    /\ files = cur.files0

C4_AlwaysOneResult ==
    cur.pc = "done"
    => (Len(cur.out) = 1 /\ cur.exit \in {0, 1} /\ cur.exc = "none")

\* a file that does not parse, or lacks checked_at, or holds a checked_at that
\* is no string
Corrupt(content) ==
    LET parsed == Parse(content) IN
    \/ parsed.kind # "object"
    \/ ~HasKey(parsed.dict, "checked_at")
    \/ Lookup(parsed.dict, "checked_at").type # "string"

IsGet == calls' = calls + 1 /\ call'.op = "get"
IsSet == calls' = calls + 1 /\ call'.op = "set"

\* C5: Cache.get raises nothing, and on a file that does not parse, lacks
\* checked_at or holds a checked_at of the wrong type it deletes the file and
\* returns None.
C5_GetNeverRaises ==
    [][IsGet =>
          /\ call'.res.exc = "none"
          /\ (files[call'.domain].exists /\ Corrupt(files[call'.domain].data))
                => (~files'[call'.domain].exists /\ ~call'.res.some)]_vars

\* C6: a get that follows a successful set for the same domain returns the
\* stored entry when now - checked_at <= 24 hours and None when it is more.
C6_FreshHitExpiredMiss ==
    [][(IsGet /\ call.op = "set" /\ call.io = "ok" /\ call'.domain = call.domain)
          => call'.res = IF clock - StampOf(call.arg) <= CACHE_TTL_HOURS
                         THEN Returned(call.arg) ELSE ReturnedNone]_vars

\* a get that returned an entry exactly 24 hours old, nothing having touched
\* the directory from outside
C6_Witness ==
    /\ call.op = "get" /\ call.res.some
    /\ tampers = 0
    /\ call.now - StampOf(call.res.dict) = CACHE_TTL_HOURS

\* C7: without a credential (none passed, WHOAPI_TOKEN unset or empty) lookup
\* returns a configuration_error result and issues no request.
C7_NoTokenNoRequest ==
    (calls > 0 /\ api.api_token = NoToken /\ api.env_token \in {NoToken, ""})
    => /\ api.res.exc = "none"
       /\ Status(api.res.dict) = "error"
       /\ DictGet(api.res.dict, "error_type", Absent) = Str("configuration_error")
       /\ api.requests = 0

\* a lookup with WHOAPI_TOKEN set to the empty string, for which the provider
\* would have answered 200
C7_Witness ==
    /\ calls > 0 /\ api.api_token = NoToken /\ api.env_token = ""
    /\ api.net.status_code = 200
    /\ api.requests = 0

ApiError(res) ==
    /\ res.exc = "none"
    /\ Status(res.dict) = "error"
    /\ DictGet(res.dict, "error_type", Absent) = Str("api_error")

Message(res) == DictGet(res.dict, "message", Absent)

\* C8: with a credential, lookup issues one request and its result follows
\* the first matching line of the table: transport failure, 401, 429, other
\* status, provider status not success, registered false, registered true;
\* and nothing but a 200 whose status is success is available or taken.
C8_ResponseTable ==
    LET net == api.net
        res == api.res
        body == net.body.dict
        success == DictGet(body, "status", Absent) = Num(0)
        registered == DictGet(body, "registered", Absent)
    IN  (calls > 0 /\ WhoisAPI_init(api.api_token, api.env_token) \notin {NoToken, ""})
        => /\ api.requests = 1
           /\ IF net.transport # "ok" THEN ApiError(res)
              ELSE IF net.status_code = 401
              THEN ApiError(res) /\ Message(res) = Str("API key invalid or missing.")
              ELSE IF net.status_code = 429
              THEN ApiError(res) /\ Message(res) = Str("API rate limit reached.")
              ELSE IF net.status_code # 200
              THEN ApiError(res) /\ Message(res).n = net.status_code
              ELSE IF ~success THEN ApiError(res)
              ELSE IF registered = False
              THEN res.exc = "none" /\ Status(res.dict) = "available"
              ELSE IF registered = True
              THEN res.exc = "none" /\ Status(res.dict) = "taken"
              ELSE TRUE
           /\ Status(res.dict) \in {"available", "taken"}
                 => (net.transport = "ok" /\ net.status_code = 200 /\ success)

\* a file that is corrupt, or whose checked_at is a string but no timestamp
NotAnEntry(content) ==
    \/ Corrupt(content)
    \/ Lookup(Parse(content).dict, "checked_at").text \notin {"iso", "isoZ", "iso+00:00"}

\* a file that holds a parseable entry older than 24 hours at time now
Expired(f, now) ==
    /\ f.exists
    /\ Parse(f.data).kind = "object"
    /\ HasKey(Parse(f.data).dict, "checked_at")
    /\ Lookup(Parse(f.data).dict, "checked_at").text \in {"iso", "isoZ"}
    /\ now - StampOf(Parse(f.data).dict) > CACHE_TTL_HOURS

\* C9: a get on a parseable entry older than 24 hours returns None and leaves
\* the file as it is; a call removes a file only when it is a get of that
\* domain on a file that is not a parseable, well-stamped entry, and changes a
\* file that stays only when it is a set for that domain.
C9_SoftExpiry ==
    [][calls' = calls + 1 =>
          \A d \in CacheNames :
             /\ (IsGet /\ call'.domain = d /\ Expired(files[d], clock))
                   => (call'.res = ReturnedNone /\ files'[d] = files[d])
             /\ (files[d].exists /\ ~files'[d].exists)
                   => (IsGet /\ call'.domain = d /\ NotAnEntry(files[d].data))
             /\ (files'[d].exists /\ files'[d] # files[d])
                   => (IsSet /\ call'.domain = d)]_vars

\* a get that returned None for an expired entry whose file is still there
C9_Witness ==
    /\ call.op = "get" /\ call.res = ReturnedNone
    /\ clock = call.now
    /\ Expired(files[call.domain], call.now)

\* C10: once two processes for the same domain have both got available or
\* taken and both written without failure, the cache file parses and holds
\* the entry of the one that wrote last.
C10_LastWriterWins ==
    (\A p \in Procs : FromProvider(proc[p]) /\ proc[p].wrote = "ok")
    => /\ files["example.com"].exists
       /\ Parse(files["example.com"].data).kind = "object"
       /\ Parse(files["example.com"].data).dict = proc[lastWriter].result
====
